---- MODULE Spec2Model ----
(***************************************************************************)
(* crlset.js: the trust pipeline of a Chrome CRLSet client.                *)
(*                                                                         *)
(*   unpackCrx -> verifySignature -> extractCrlSetFromZip -> parseCRLSet   *)
(*   -> new CRLSet -> cachedCRLSet (loadLatestCRLSet)                      *)
(*                                                                         *)
(* Buffers are sequences of bytes (0..255), JavaScript strings are         *)
(* sequences of one-character strings.                                     *)
(***************************************************************************)
EXTENDS Integers, Sequences, FiniteSets, TLC

VARIABLES
    cachedCRLSet,   \* crlset.ts: the module-level cache cell (Null or a CRLSet)
    calls,          \* the loadLatestCRLSet invocations in flight or just settled
    clock,          \* Date.now() / 1000, floored
    nextId,         \* identity of the next CRLSet object constructed
    heap,           \* the CRLSet objects constructed so far, by identity
    verified,       \* for each of them, what the verifier did in the run that produced it
    started,        \* how many invocations of loadLatestCRLSet have begun
    vq,             \* one verifySignature application: its arguments and outcome
    cq,             \* one CRLSet query: the set, the arguments and the answers
    pq,             \* one parseCRLSet application: the file written, the buffer, the outcome
    uq              \* one unpackCrx application: the buffer and the outcome

vars == <<cachedCRLSet, calls, clock, nextId, heap, verified, started, vq, cq, pq, uq>>

\* An optional value (a property that may be undefined) is the empty sequence
\* when absent and a one-element sequence when present.
Undefined == <<>>
Defined(v) == <<v>>
ValueOf(o) == o[1]

----------------------------------------------------------------------------
(* Strings and bytes                                                       *)

HexDigits == <<"0","1","2","3","4","5","6","7","8","9","a","b","c","d","e","f">>

LowerLetters == <<"a","b","c","d","e","f","g","h","i","j","k","l","m",
                  "n","o","p","q","r","s","t","u","v","w","x","y","z">>

UpperLetters == <<"A","B","C","D","E","F","G","H","I","J","K","L","M",
                  "N","O","P","Q","R","S","T","U","V","W","X","Y","Z">>

Base64Alphabet == UpperLetters \o LowerLetters \o
                  <<"0","1","2","3","4","5","6","7","8","9","+","/">>

IndexOf(seq, x) == IF \E i \in DOMAIN seq : seq[i] = x
                   THEN CHOOSE i \in DOMAIN seq : seq[i] = x
                   ELSE 0

\* String.prototype.toLowerCase, character by character
LowerChar(c) == IF IndexOf(UpperLetters, c) = 0 THEN c
                ELSE LowerLetters[IndexOf(UpperLetters, c)]

ToLowerCase(s) == [i \in DOMAIN s |-> LowerChar(s[i])]

\* Buffer.prototype.toString('hex'): two lower-case digits per byte
ToHex(bytes) ==
    [i \in 1..(2 * Len(bytes)) |->
        IF i % 2 = 1 THEN HexDigits[(bytes[(i + 1) \div 2] \div 16) + 1]
        ELSE HexDigits[(bytes[i \div 2] % 16) + 1]]

\* Buffer.from(s, 'base64'): the sextets up to the first '=' (characters outside
\* the alphabet are skipped), regrouped into bytes; a dangling sextet is dropped
RECURSIVE Sextets(_)
Sextets(s) ==
    IF s = <<>> \/ Head(s) = "=" THEN <<>>
    ELSE IF IndexOf(Base64Alphabet, Head(s)) = 0 THEN Sextets(Tail(s))
    ELSE <<IndexOf(Base64Alphabet, Head(s)) - 1>> \o Sextets(Tail(s))

RECURSIVE SextetsToBytes(_)
SextetsToBytes(x) ==
    IF Len(x) < 2 THEN <<>>
    ELSE IF Len(x) = 2 THEN <<x[1] * 4 + (x[2] \div 16)>>
    ELSE IF Len(x) = 3 THEN <<x[1] * 4 + (x[2] \div 16),
                              (x[2] % 16) * 16 + (x[3] \div 4)>>
    ELSE <<x[1] * 4 + (x[2] \div 16),
           (x[2] % 16) * 16 + (x[3] \div 4),
           (x[3] % 4) * 64 + x[4]>> \o SextetsToBytes(SubSeq(x, 5, Len(x)))

FromBase64(s) == SextetsToBytes(Sextets(s))

\* Buffer.prototype.writeUInt32LE / readUInt32LE / readUInt16LE
UInt32LE(n) == <<n % 256, (n \div 256) % 256, (n \div 65536) % 256, (n \div 16777216) % 256>>

\* variant: the most significant byte comes first
ReadUInt32BE(buf, off) ==
    16777216 * buf[off + 1] + 65536 * buf[off + 2] + 256 * buf[off + 3] + buf[off + 4]

ReadUInt32LE(buf, off) ==
    buf[off + 1] + 256 * buf[off + 2] + 65536 * buf[off + 3] + 16777216 * buf[off + 4]

ReadUInt16LE(buf, off) == buf[off + 1] + 256 * buf[off + 2]

\* A JavaScript number holds every 32-bit unsigned value and every sum of two of
\* them exactly. Where such a value may pass 2^31 it is kept as two parts,
\* 65536 * hi + lo with lo < 65536.
ReadUInt32LEWide(buf, off) ==
    [hi |-> buf[off + 3] + 256 * buf[off + 4], lo |-> buf[off + 1] + 256 * buf[off + 2]]

\* n + w, w === n and w > n for a wide w and a number n below 2^31
WidePlus(n, w) ==
    [hi |-> w.hi + (n \div 65536) + ((w.lo + (n % 65536)) \div 65536),
     lo |-> (w.lo + (n % 65536)) % 65536]

WideEquals(w, n) == w.hi = n \div 65536 /\ w.lo = n % 65536

WideExceeds(w, n) ==
    \/ w.hi > n \div 65536
    \/ w.hi = n \div 65536 /\ w.lo > n % 65536

\* the number itself, for a wide value known to be below 2^31
WideValue(w) == 65536 * w.hi + w.lo

\* Buffer.prototype.subarray(start, end), offsets counted from 0, clamped
Subarray(buf, start, end) ==
    LET e == IF end > Len(buf) THEN Len(buf) ELSE end
    IN  IF start >= e THEN <<>> ELSE SubSeq(buf, start + 1, e)

----------------------------------------------------------------------------
(* Results of operations that may throw                                    *)

Return(v) == [kind |-> "return", value |-> v]
Throw(e)  == [kind |-> "throw", error |-> e]

TypeError == "TypeError"

----------------------------------------------------------------------------
(* verify.ts: verifySignature, findCrlSetKey, crxIdToHex                   *)

CRLSET_APP_ID == <<"h","f","n","k","p","i","m","l","h","h","g","i","e","a","d","d",
                   "g","f","e","m","j","h","o","f","m","f","b","l","m","n","i","b">>

\* 'CRX3 SignedData\x00'
SIGNED_DATA_PREFIX == <<67, 82, 88, 51, 32, 83, 105, 103, 110, 101, 100, 68, 97, 116, 97, 0>>

MissingSignedData == "CRX signature verification failed: signedHeaderData is missing."
NoMatchingKey == "CRX signature verification failed: no valid publicKey for the CRLSet component found."

\* each character c becomes the hex digit of c - 'a'
crxIdToHex(appId) == [i \in DOMAIN appId |-> HexDigits[IndexOf(LowerLetters, appId[i])]]

\* The keys that occur in containers. CrlSetKey is the component's signing key:
\* its SHA-256 begins with the component identifier. CollidingKey is a second key
\* with the same 16-byte hash prefix, NearMissKey one whose prefix differs in its
\* last digit only, OtherKey an unrelated key.
CrlSetKey    == <<48, 1>>
CollidingKey == <<48, 2>>
NearMissKey  == <<48, 3>>
OtherKey     == <<48, 4>>

Repeat(c, n) == [i \in 1..n |-> c]

\* createHash('sha256').update(key).digest('hex') on the keys above; any other
\* input gets a digest that starts with its own hex form
Sha256Hex(bytes) ==
    LET id == crxIdToHex(CRLSET_APP_ID)
    IN  IF bytes = CrlSetKey THEN id \o Repeat("a", 32)
        ELSE IF bytes = CollidingKey THEN id \o Repeat("b", 32)
        ELSE IF bytes = NearMissKey THEN SubSeq(id, 1, 31) \o Repeat("c", 33)
        ELSE SubSeq(ToHex(bytes) \o Repeat("0", 64), 1, 64)

\* Buffer.prototype.toString('base64')
RECURSIVE ToBase64(_)
ToBase64(b) ==
    LET ch(v) == Base64Alphabet[v + 1]
    IN  IF b = <<>> THEN <<>>
        ELSE IF Len(b) = 1
             THEN <<ch(b[1] \div 4), ch((b[1] % 4) * 16), "=", "=">>
        ELSE IF Len(b) = 2
             THEN <<ch(b[1] \div 4), ch((b[1] % 4) * 16 + (b[2] \div 16)),
                    ch((b[2] % 16) * 4), "=">>
        ELSE <<ch(b[1] \div 4), ch((b[1] % 4) * 16 + (b[2] \div 16)),
               ch((b[2] % 16) * 4 + (b[3] \div 64)), ch(b[3] % 64)>>
             \o ToBase64(SubSeq(b, 4, Len(b)))

\* utils/crypto.ts
asPemKey(key) == [label |-> "PUBLIC KEY", body |-> ToBase64(key)]

\* The signature primitive, idealised: the only signature that verifies under a
\* key for a message is the one the key's owner made for exactly that message.
SignatureOf(key, message) == <<Len(key)>> \o key \o message

\* createVerify('sha256').update(data).verify(pem, signature)
CryptoVerify(pem, data, signature) ==
    signature = SignatureOf(FromBase64(pem.body), data)

\* the scan of findCrlSetKey over the concatenated proof list
RECURSIVE ScanProofs(_, _)
ScanProofs(proofs, expectedId) ==
    IF proofs = <<>> THEN Return([publicKey |-> Undefined, signature |-> Undefined])
    ELSE LET proof == Head(proofs)
         IN  IF proof.publicKey = Undefined THEN Throw(TypeError)
             ELSE LET publicKey == FromBase64(ValueOf(proof.publicKey))
                      hash == Sha256Hex(publicKey)
                      id == SubSeq(hash, 1, 32)
                  IN  IF id = expectedId
                      THEN IF proof.signature = Undefined THEN Throw(TypeError)
                           ELSE Return([publicKey |-> Defined(publicKey),
                                        signature |-> Defined(FromBase64(ValueOf(proof.signature)))])
                      ELSE ScanProofs(Tail(proofs), expectedId)

\* [...header.sha256WithRsa, ...header.sha256WithEcdsa]: spreading a list that
\* the decoded header does not have throws
findCrlSetKey(header) ==
    LET expectedId == crxIdToHex(CRLSET_APP_ID)
    IN  IF header.sha256WithRsa = Undefined \/ header.sha256WithEcdsa = Undefined
        THEN Throw(TypeError)
        ELSE ScanProofs(ValueOf(header.sha256WithRsa) \o ValueOf(header.sha256WithEcdsa),
                        expectedId)

\* variant: the payload precedes the signed header data
dataToVerifyPayloadFirst(header, zipBuffer) ==
    LET signedHeaderDataBuffer == FromBase64(ValueOf(header.signedHeaderData))
        sizeBuffer == UInt32LE(Len(signedHeaderDataBuffer))
    IN  SIGNED_DATA_PREFIX \o sizeBuffer \o zipBuffer \o signedHeaderDataBuffer

\* the message whose signature is checked
dataToVerify(header, zipBuffer) ==
    LET signedHeaderDataBuffer == FromBase64(ValueOf(header.signedHeaderData))
        sizeBuffer == UInt32LE(Len(signedHeaderDataBuffer))
    IN  SIGNED_DATA_PREFIX \o sizeBuffer \o signedHeaderDataBuffer \o zipBuffer

\* variant: key discovery before the signedHeaderData check
verifySignatureKeyDiscoveryFirst(header, zipBuffer) ==
    LET found == findCrlSetKey(header)
    IN  IF found.kind = "throw" THEN found
        ELSE IF found.value.publicKey = Undefined \/ found.value.signature = Undefined
             THEN Throw(NoMatchingKey)
        ELSE IF header.signedHeaderData = Undefined \/ ValueOf(header.signedHeaderData) = <<>>
             THEN Throw(MissingSignedData)
        ELSE Return(CryptoVerify(asPemKey(ValueOf(found.value.publicKey)),
                                 dataToVerify(header, zipBuffer),
                                 ValueOf(found.value.signature)))

verifySignature(header, zipBuffer) ==
    IF header.signedHeaderData = Undefined \/ ValueOf(header.signedHeaderData) = <<>>
    THEN Throw(MissingSignedData)
    ELSE LET found == findCrlSetKey(header)
         IN  IF found.kind = "throw" THEN found
             ELSE IF found.value.publicKey = Undefined \/ found.value.signature = Undefined
                  THEN Throw(NoMatchingKey)
                  ELSE Return(CryptoVerify(asPemKey(ValueOf(found.value.publicKey)),
                                           dataToVerify(header, zipBuffer),
                                           ValueOf(found.value.signature)))

----------------------------------------------------------------------------
(* The data the update server may deliver. The schema decoder, the archive *)
(* reader and JSON.parse are libraries: each is given by its value on the  *)
(* inputs that occur, the one-byte input <<k>> being the wire form of the  *)
(* k-th value listed.                                                      *)

UInt16LE(n) == <<n % 256, (n \div 256) % 256>>

RECURSIVE Concat(_)
Concat(seqs) == IF seqs = <<>> THEN <<>> ELSE Head(seqs) \o Concat(Tail(seqs))

\* issuer SPKI hashes (32 bytes) and serial numbers
HashA == Repeat(171, 32)
HashB == Repeat(205, 32)
HashC == Repeat(18, 32)
SerialX == <<10, 11>>
SerialY == <<1>>

\* the headers JSON.parse yields (CRLSetHeader; the informational fields are left out)
JsonHeaders == <<
    [Sequence |-> Defined(1), NotAfter |-> Defined(0), NumParents |-> Defined(1),
     BlockedSPKIs |-> Defined(<<ToBase64(HashB)>>)],
    [Sequence |-> Defined(2), NotAfter |-> Defined(1), NumParents |-> Defined(2),
     BlockedSPKIs |-> Defined(<<>>)],
    [Sequence |-> Undefined, NotAfter |-> Undefined, NumParents |-> Defined(1),
     BlockedSPKIs |-> Undefined],
    [Sequence |-> Defined(3), NotAfter |-> Defined(1), NumParents |-> Defined(0),
     BlockedSPKIs |-> Defined(<<>>)],
    [Sequence |-> Defined(3), NotAfter |-> Defined(1), NumParents |-> Defined(3),
     BlockedSPKIs |-> Defined(<<>>)] >>

\* the conforming writer of the CRLSet layout
EncodeSerial(serial) == <<Len(serial)>> \o serial

EncodeEntry(entry) ==
    entry.spki \o UInt32LE(Len(entry.serials))
    \o Concat([i \in DOMAIN entry.serials |-> EncodeSerial(entry.serials[i])])

EncodeCRLSet(headerBytes, entries) ==
    UInt16LE(Len(headerBytes)) \o headerBytes
    \o Concat([i \in DOMAIN entries |-> EncodeEntry(entries[i])])

EntryA == [spki |-> HashA, serials |-> <<SerialX, SerialY>>]
EntryC == [spki |-> HashC, serials |-> <<SerialY>>]

CrlSetFile1 == EncodeCRLSet(<<1>>, <<EntryA>>)
CrlSetFile2 == EncodeCRLSet(<<2>>, <<EntryA, EntryC>>)
\* the second file cut inside its last serial number
CrlSetFileCut == SubSeq(CrlSetFile2, 1, Len(CrlSetFile2) - 1)
\* a header without Sequence, NotAfter and BlockedSPKIs
CrlSetFileBare == EncodeCRLSet(<<3>>, <<EntryA>>)

\* the archives the archive reader opens: entry name -> data
Archives == <<
    [name |-> "crl-set", data |-> CrlSetFile1],
    [name |-> "crl-set", data |-> CrlSetFile2],
    [name |-> "not-crl-set", data |-> <<>>],
    [name |-> "crl-set", data |-> CrlSetFileCut],
    [name |-> "crl-set", data |-> CrlSetFileBare] >>

\* the signed header data of every container
SignedHeaderData == <<9, 9>>

SignedMessage(zipBuffer) ==
    SIGNED_DATA_PREFIX \o UInt32LE(Len(SignedHeaderData)) \o SignedHeaderData \o zipBuffer

Proof(key, signedBy, zipBuffer) ==
    [publicKey |-> Defined(ToBase64(key)),
     signature |-> Defined(ToBase64(SignatureOf(signedBy, SignedMessage(zipBuffer))))]

\* a header whose CRLSet proof is a valid signature of the payload
SignedHeader(zipBuffer) ==
    [sha256WithRsa |-> Defined(<<Proof(OtherKey, OtherKey, zipBuffer),
                                 Proof(CrlSetKey, CrlSetKey, zipBuffer)>>),
     sha256WithEcdsa |-> Defined(<<Proof(NearMissKey, NearMissKey, zipBuffer)>>),
     signedHeaderData |-> Defined(ToBase64(SignedHeaderData))]

\* the headers the schema decoder yields (CrxFileHeader): 1..5 sign archive 1..5,
\* 6 carries a signature made for another payload, 7 has no ECDSA list, 8 has no
\* proof for the component, 9 has no signed header data
DecodedHeaders == <<
    SignedHeader(<<1>>), SignedHeader(<<2>>), SignedHeader(<<3>>),
    SignedHeader(<<4>>), SignedHeader(<<5>>),
    SignedHeader(<<1>>),
    [SignedHeader(<<1>>) EXCEPT !.sha256WithEcdsa = Undefined],
    [SignedHeader(<<1>>) EXCEPT !.sha256WithRsa = Defined(<<Proof(OtherKey, OtherKey, <<1>>)>>)],
    [SignedHeader(<<1>>) EXCEPT !.signedHeaderData = Undefined] >>

\* a CRX3 file: magic, version, header length, header-proof region, payload
EncodeCrx(magic, version, headerBytes, zipBuffer) ==
    magic \o UInt32LE(version) \o UInt32LE(Len(headerBytes)) \o headerBytes \o zipBuffer

----------------------------------------------------------------------------
(* parser.ts: unpackCrx, extractCrlSetFromZip, parseCRLSetHeader,          *)
(* parseCRLSet                                                             *)

\* 'Cr24' as character codes
CRX_MAGIC == <<67, 114, 50, 52>>

CRL_SET_ZIP_ENTRY == "crl-set"

InvalidMagic == "Invalid CRX magic"
UnsupportedVersion == "Unsupported CRX version"
HeaderLengthExceeds == "Invalid CRX header: header length exceeds file size."
NoCrlSetFile == "CRX archive does not contain a CRLSet file."
TruncatedHeaderLength == "CRLSet file is truncated (at header length)."
TruncatedHeaderContent == "CRLSet file is truncated (at header content)."
TruncatedSpkiHash == "CRLSet file is truncated (at SPKI hash)."
TruncatedSerialCount == "CRLSet file is truncated (at serial count)."
TruncatedSerialLength == "CRLSet file is truncated (at serial length)."
TruncatedSerialNumber == "CRLSet file is truncated (at serial number)."
RangeError == "RangeError"
ProtocolError == "ProtocolError"
InvalidZip == "Invalid or unsupported zip format"
SyntaxError == "SyntaxError"

\* Buffer.prototype.toString('ascii', start, end): the range is clamped to the
\* buffer and decoding clears the high bit of every byte
AsciiSlice(buf, start, end) ==
    LET part == Subarray(buf, start, end)
    IN  [i \in DOMAIN part |-> part[i] % 128]

EmptyCrxFileHeader ==
    [sha256WithRsa |-> Undefined, sha256WithEcdsa |-> Undefined, signedHeaderData |-> Undefined]

\* CrxHeader.decode(bytes).toJSON(): the empty region is a message with no field set
DecodeCrxFileHeader(bytes) ==
    IF bytes = <<>> THEN Return(EmptyCrxFileHeader)
    ELSE IF Len(bytes) = 1 /\ bytes[1] \in DOMAIN DecodedHeaders
         THEN Return(DecodedHeaders[bytes[1]])
         ELSE Throw(ProtocolError)

\* variant: the sum wraps at 32 bits
zipOffsetWrapping(headerLen) ==
    [WidePlus(12, headerLen) EXCEPT !.hi = @ % 65536]

\* const zipOffset = 12 + headerLen
zipOffset(headerLen) == WidePlus(12, headerLen)

\* variant: the payload starts right after the 12-byte prefix
zipBufferOverlapping(crxBuffer, offset) == Subarray(crxBuffer, 12, Len(crxBuffer))

\* const zipBuffer = crxBuffer.subarray(zipOffset)
zipBufferAt(crxBuffer, offset) == Subarray(crxBuffer, offset, Len(crxBuffer))

\* variant: the header length is examined before the version
unpackCrxLengthFirst(crxBuffer) ==
    LET magic == AsciiSlice(crxBuffer, 0, 4)
    IN  IF magic # CRX_MAGIC THEN Throw(InvalidMagic)
        ELSE IF Len(crxBuffer) < 12 THEN Throw(RangeError)
        ELSE LET headerLen == ReadUInt32LEWide(crxBuffer, 8)
                 offset == zipOffset(headerLen)
             IN  IF WideExceeds(offset, Len(crxBuffer)) THEN Throw(HeaderLengthExceeds)
                 ELSE IF ~WideEquals(ReadUInt32LEWide(crxBuffer, 4), 3)
                 THEN Throw(UnsupportedVersion)
                 ELSE LET protoHeaderBuffer == Subarray(crxBuffer, 12, WideValue(offset))
                          decoded == DecodeCrxFileHeader(protoHeaderBuffer)
                      IN  IF decoded.kind = "throw" THEN decoded
                          ELSE Return([header |-> decoded.value,
                                       zipBuffer |-> zipBufferAt(crxBuffer, WideValue(offset))])

\* readUInt32LE throws a RangeError when the four bytes are not all in the buffer
unpackCrx(crxBuffer) ==
    LET magic == AsciiSlice(crxBuffer, 0, 4)
    IN  IF magic # CRX_MAGIC THEN Throw(InvalidMagic)
        ELSE IF Len(crxBuffer) < 8 THEN Throw(RangeError)
        ELSE IF ~WideEquals(ReadUInt32LEWide(crxBuffer, 4), 3) THEN Throw(UnsupportedVersion)
        ELSE IF Len(crxBuffer) < 12 THEN Throw(RangeError)
        ELSE LET headerLen == ReadUInt32LEWide(crxBuffer, 8)
                 offset == zipOffset(headerLen)
             IN  IF WideExceeds(offset, Len(crxBuffer)) THEN Throw(HeaderLengthExceeds)
                 ELSE LET protoHeaderBuffer == Subarray(crxBuffer, 12, WideValue(offset))
                          decoded == DecodeCrxFileHeader(protoHeaderBuffer)
                      IN  IF decoded.kind = "throw" THEN decoded
                          ELSE Return([header |-> decoded.value,
                                       zipBuffer |-> zipBufferAt(crxBuffer, WideValue(offset))])

\* new AdmZip(zipBuffer)
OpenZip(zipBuffer) ==
    IF Len(zipBuffer) = 1 /\ zipBuffer[1] \in DOMAIN Archives
    THEN Return(Archives[zipBuffer[1]])
    ELSE Throw(InvalidZip)

extractCrlSetFromZip(zipBuffer) ==
    LET zip == OpenZip(zipBuffer)
    IN  IF zip.kind = "throw" THEN zip
        ELSE IF zip.value.name # CRL_SET_ZIP_ENTRY THEN Throw(NoCrlSetFile)
        ELSE Return(zip.value.data)

\* JSON.parse(headerBytes.toString('utf8'))
JsonParse(bytes) ==
    IF Len(bytes) = 1 /\ bytes[1] \in DOMAIN JsonHeaders
    THEN Return(JsonHeaders[bytes[1]])
    ELSE Throw(SyntaxError)

parseCRLSetHeader(crlSetBuffer) ==
    IF Len(crlSetBuffer) < 2 THEN Throw(TruncatedHeaderLength)
    ELSE LET headerLen == ReadUInt16LE(crlSetBuffer, 0)
         IN  IF Len(crlSetBuffer) < 2 + headerLen THEN Throw(TruncatedHeaderContent)
             ELSE JsonParse(Subarray(crlSetBuffer, 2, 2 + headerLen))

\* the inner loop of parseCRLSet: reads the j-th of numSerials serials at offset
RECURSIVE ReadSerials(_, _, _, _, _)
ReadSerials(buf, offset, j, numSerials, serials) ==
    IF ~(j < numSerials) THEN Return([offset |-> offset, serials |-> serials])
    ELSE IF offset + 1 > Len(buf) THEN Throw(TruncatedSerialLength)
    ELSE LET serialLen == buf[offset + 1]
             start == offset + 1
         IN  IF start + serialLen > Len(buf) THEN Throw(TruncatedSerialNumber)
             ELSE ReadSerials(buf, start + serialLen, j + 1, numSerials,
                              serials \cup {ToHex(Subarray(buf, start, start + serialLen))})

\* Map.prototype.set
MapSet(map, key, value) ==
    [k \in (DOMAIN map) \cup {key} |-> IF k = key THEN value ELSE map[k]]

EmptyMap == [k \in {} |-> {}]

\* the outer loop of parseCRLSet: reads the i-th of numParents entries at offset
RECURSIVE ReadParents(_, _, _, _, _)
ReadParents(buf, offset, i, numParents, revocations) ==
    IF ~(i < numParents) THEN Return(revocations)
    ELSE IF offset + 32 > Len(buf) THEN Throw(TruncatedSpkiHash)
    ELSE LET spkiHash == ToHex(Subarray(buf, offset, offset + 32))
             countAt == offset + 32
         IN  IF countAt + 4 > Len(buf) THEN Throw(TruncatedSerialCount)
             ELSE LET numSerials == ReadUInt32LE(buf, countAt)
                      read == ReadSerials(buf, countAt + 4, 0, numSerials, {})
                  IN  IF read.kind = "throw" THEN read
                      ELSE ReadParents(buf, read.value.offset, i + 1, numParents,
                                       MapSet(revocations, spkiHash, read.value.serials))

\* variant: a body that ends early yields the header with an empty index
parseCRLSetTolerant(crlSetBuffer) ==
    LET parsed == parseCRLSetHeader(crlSetBuffer)
    IN  IF parsed.kind = "throw" THEN parsed
        ELSE LET header == parsed.value
                 headerLen == ReadUInt16LE(crlSetBuffer, 0)
                 numParents == IF header.NumParents = Undefined THEN 0
                               ELSE ValueOf(header.NumParents)
                 body == ReadParents(crlSetBuffer, 2 + headerLen, 0, numParents, EmptyMap)
             IN  IF body.kind = "throw"
                 THEN Return([header |-> header, revocations |-> EmptyMap])
                 ELSE Return([header |-> header, revocations |-> body.value])

\* i < header.NumParents is false when NumParents is undefined
parseCRLSet(crlSetBuffer) ==
    LET parsed == parseCRLSetHeader(crlSetBuffer)
    IN  IF parsed.kind = "throw" THEN parsed
        ELSE LET header == parsed.value
                 headerLen == ReadUInt16LE(crlSetBuffer, 0)
                 numParents == IF header.NumParents = Undefined THEN 0
                               ELSE ValueOf(header.NumParents)
                 body == ReadParents(crlSetBuffer, 2 + headerLen, 0, numParents, EmptyMap)
             IN  IF body.kind = "throw" THEN body
                 ELSE Return([header |-> header, revocations |-> body.value])

----------------------------------------------------------------------------
(* parser.ts: processCrx. Besides its outcome the result records which     *)
(* stages ran: whether the verifier was called and what it answered,       *)
(* whether the archive was opened and whether the CRLSet was parsed.       *)

SignatureFailed == "CRX signature verification failed."

Stages(outcome, unpacked, verifier, extracted, parsed) ==
    [outcome |-> outcome, unpacked |-> unpacked, verifier |-> verifier,
     extracted |-> extracted, parsed |-> parsed]

\* the part of processCrx after the signature check
extractAndParse(zipBuffer, verifier) ==
    LET crlSetBuffer == extractCrlSetFromZip(zipBuffer)
    IN  IF crlSetBuffer.kind = "throw"
        THEN Stages(crlSetBuffer, TRUE, verifier, TRUE, FALSE)
        ELSE Stages(parseCRLSet(crlSetBuffer.value), TRUE, verifier, TRUE, TRUE)

\* variant: the verifier's answer is not looked at
processCrxIgnoringAnswer(crxBuffer, verify) ==
    LET unpacked == unpackCrx(crxBuffer)
    IN  IF unpacked.kind = "throw"
        THEN Stages(unpacked, FALSE, "not called", FALSE, FALSE)
        ELSE LET crxHeader == unpacked.value.header
                 zipBuffer == unpacked.value.zipBuffer
             IN  IF verify
                 THEN LET isSignatureValid == verifySignature(crxHeader, zipBuffer)
                      IN  IF isSignatureValid.kind = "throw"
                          THEN Stages(isSignatureValid, TRUE, "threw", FALSE, FALSE)
                          ELSE extractAndParse(zipBuffer, "true")
                 ELSE extractAndParse(zipBuffer, "not called")

\* variant: the verifier runs whatever the option says
processCrxAlwaysVerifying(crxBuffer, verify) ==
    LET unpacked == unpackCrx(crxBuffer)
    IN  IF unpacked.kind = "throw"
        THEN Stages(unpacked, FALSE, "not called", FALSE, FALSE)
        ELSE LET crxHeader == unpacked.value.header
                 zipBuffer == unpacked.value.zipBuffer
                 isSignatureValid == verifySignature(crxHeader, zipBuffer)
             IN  IF isSignatureValid.kind = "throw"
                 THEN Stages(isSignatureValid, TRUE, "threw", FALSE, FALSE)
                 ELSE IF ~isSignatureValid.value
                 THEN Stages(Throw(SignatureFailed), TRUE, "false", FALSE, FALSE)
                 ELSE extractAndParse(zipBuffer, "true")

processCrx(crxBuffer, verify) ==
    LET unpacked == unpackCrx(crxBuffer)
    IN  IF unpacked.kind = "throw"
        THEN Stages(unpacked, FALSE, "not called", FALSE, FALSE)
        ELSE LET crxHeader == unpacked.value.header
                 zipBuffer == unpacked.value.zipBuffer
             IN  IF verify
                 THEN LET isSignatureValid == verifySignature(crxHeader, zipBuffer)
                      IN  IF isSignatureValid.kind = "throw"
                          THEN Stages(isSignatureValid, TRUE, "threw", FALSE, FALSE)
                          ELSE IF ~isSignatureValid.value
                          THEN Stages(Throw(SignatureFailed), TRUE, "false", FALSE, FALSE)
                          ELSE extractAndParse(zipBuffer, "true")
                 ELSE extractAndParse(zipBuffer, "not called")

----------------------------------------------------------------------------
(* crlset.ts: class CRLSet                                                 *)

OK == "OK"
REVOKED_BY_SPKI == "REVOKED_BY_SPKI"
REVOKED_BY_SERIAL == "REVOKED_BY_SERIAL"

\* the constructor; id is the identity of the object created
NewCRLSet(id, header, revocations) ==
    IF header.BlockedSPKIs = Undefined THEN Throw(TypeError)
    ELSE LET blocked == ValueOf(header.BlockedSPKIs)
         IN  Return([id |-> id,
                     header |-> header,
                     sequence |-> header.Sequence,
                     revocations |-> revocations,
                     blockedSpkis |-> {ToHex(FromBase64(blocked[i])) : i \in DOMAIN blocked}])

isRevokedBySPKI(set, spkiHash) == ToLowerCase(spkiHash) \in set.blockedSpkis

\* variant: the serial is looked up under every issuer
isRevokedBySerialAnyIssuer(set, spkiHash, serialNumber) ==
    \E key \in DOMAIN set.revocations : ToLowerCase(serialNumber) \in set.revocations[key]

\* variant: the serial is compared as given
isRevokedBySerialCaseSensitive(set, spkiHash, serialNumber) ==
    LET key == ToLowerCase(spkiHash)
    IN  IF key \notin DOMAIN set.revocations THEN FALSE
        ELSE serialNumber \in set.revocations[key]

isRevokedBySerial(set, spkiHash, serialNumber) ==
    LET key == ToLowerCase(spkiHash)
    IN  IF key \notin DOMAIN set.revocations THEN FALSE
        ELSE ToLowerCase(serialNumber) \in set.revocations[key]

\* variant: the serial-level check comes first
checkSerialFirst(set, spkiHash, serialNumber) ==
    IF isRevokedBySerial(set, spkiHash, serialNumber) THEN REVOKED_BY_SERIAL
    ELSE IF isRevokedBySPKI(set, spkiHash) THEN REVOKED_BY_SPKI
    ELSE OK

check(set, spkiHash, serialNumber) ==
    IF isRevokedBySPKI(set, spkiHash) THEN REVOKED_BY_SPKI
    ELSE IF isRevokedBySerial(set, spkiHash, serialNumber) THEN REVOKED_BY_SERIAL
    ELSE OK

----------------------------------------------------------------------------
(* crlset.ts: cachedCRLSet and loadLatestCRLSet                            *)

\* invocations begun in a run, and the latest time an invocation begins at
MaxCalls == 2
MaxTime == 1

\* Two invocations may overlap. A slot holds an invocation from its entry until
\* the next invocation takes the slot over; a settled invocation stays visible
\* in its slot until then.
CallIds == {1, 2}
Times == 0..MaxTime

Null == [id |-> 0]

BadMagicBytes == <<70, 97, 105, 108>>

\* what downloadLatestCRLSetCrx may resolve to
Containers == {
    EncodeCrx(CRX_MAGIC, 3, <<1>>, <<1>>),       \* signed, Sequence 1, NotAfter 0
    EncodeCrx(CRX_MAGIC, 3, <<2>>, <<2>>),       \* signed, Sequence 2, NotAfter 1
    EncodeCrx(CRX_MAGIC, 3, <<6>>, <<2>>),       \* the signature is for another payload
    EncodeCrx(CRX_MAGIC, 3, <<7>>, <<1>>),       \* no ECDSA list in the header
    EncodeCrx(CRX_MAGIC, 3, <<3>>, <<3>>),       \* signed, no crl-set entry
    EncodeCrx(CRX_MAGIC, 3, <<4>>, <<4>>),       \* signed, truncated CRLSet
    EncodeCrx(CRX_MAGIC, 3, <<5>>, <<5>>),       \* signed, header without BlockedSPKIs
    EncodeCrx(BadMagicBytes, 3, <<1>>, <<1>>) }  \* not a CRX file

\* processCrx on each of them, evaluated once
Processed == [crxBuffer \in Containers, verify \in BOOLEAN |-> processCrx(crxBuffer, verify)]

\* what the fetcher may reject with
DownloadErrors == {"Failed to download CRX file"}
ProbeErrors == {"Failed to fetch CRLSet header"}

\* the Sequence of the header fetchRemoteHeader may resolve to
RemoteSequences == {Undefined, Defined(1), Defined(2), Defined(3)}

IdleCall ==
    [pc |-> "idle", verifySignature |-> TRUE, updateStrategy |-> "always", now |-> 0,
     seen |-> Null, downloads |-> 0, probes |-> 0, fault |-> "",
     remote |-> Undefined, crxBuffer |-> Undefined, proc |-> Undefined,
     wrote |-> FALSE, outcome |-> "pending", error |-> "", result |-> Null,
     cacheAtEnd |-> Null]

\* the call settles: it returns a set or rejects, and the cache cell is as given
Returns(call, set, cache) ==
    [call EXCEPT !.pc = "done", !.outcome = "returned", !.result = set, !.cacheAtEnd = cache]

Rejects(call, e, cache) ==
    [call EXCEPT !.pc = "done", !.outcome = "threw", !.error = e, !.cacheAtEnd = cache]

\* variant: expiry one second late
isExpiredLate(set, now) ==
    set.header.NotAfter # Undefined /\ ValueOf(set.header.NotAfter) + 1 < now

\* cachedCRLSet.header.NotAfter < now, false when NotAfter is undefined
isExpired(set, now) ==
    set.header.NotAfter # Undefined /\ ValueOf(set.header.NotAfter) < now

\* variant: an equal Sequence counts as newer
isNewerOrEqual(remoteSequence, set) ==
    /\ remoteSequence # Undefined
    /\ set.header.Sequence # Undefined
    /\ ValueOf(remoteSequence) >= ValueOf(set.header.Sequence)

\* remoteHeader.Sequence > cachedCRLSet.header.Sequence, false when either is undefined
isNewer(remoteSequence, set) ==
    /\ remoteSequence # Undefined
    /\ set.header.Sequence # Undefined
    /\ ValueOf(remoteSequence) > ValueOf(set.header.Sequence)

\* fetchAndProcessNewSet up to its first await
BeginFetch(call) == [call EXCEPT !.pc = "download", !.downloads = @ + 1]

\* variant: the 'on-expiry' strategy is not looked at
StartProbingAnyway(c, verify, strategy, now) ==
    /\ calls[c].pc \in {"idle", "done"}
    /\ \A d \in CallIds : d < c => calls[d].pc \notin {"idle", "done"}
    /\ started < MaxCalls
    /\ started' = started + 1
    /\ now >= clock
    /\ clock' = now
    /\ LET call == [IdleCall EXCEPT !.verifySignature = verify, !.updateStrategy = strategy,
                                    !.now = now, !.seen = cachedCRLSet]
       IN  calls' = [calls EXCEPT ![c] =
               IF cachedCRLSet = Null THEN BeginFetch(call)
               ELSE IF isExpired(cachedCRLSet, now) THEN BeginFetch(call)
               ELSE [call EXCEPT !.pc = "probe", !.probes = @ + 1]]
    /\ UNCHANGED <<cachedCRLSet, nextId, heap, verified, vq, cq, pq, uq>>

\* loadLatestCRLSet from its entry to its first await or return
Start(c, verify, strategy, now) ==
    /\ calls[c].pc \in {"idle", "done"}
    /\ \A d \in CallIds : d < c => calls[d].pc \notin {"idle", "done"}
    /\ started < MaxCalls
    /\ started' = started + 1
    /\ now >= clock
    /\ clock' = now
    /\ LET call == [IdleCall EXCEPT !.verifySignature = verify, !.updateStrategy = strategy,
                                    !.now = now, !.seen = cachedCRLSet]
       IN  calls' = [calls EXCEPT ![c] =
               IF cachedCRLSet = Null THEN BeginFetch(call)
               ELSE IF isExpired(cachedCRLSet, now) THEN BeginFetch(call)
               ELSE IF strategy = "on-expiry" THEN Returns(call, cachedCRLSet, cachedCRLSet)
               ELSE [call EXCEPT !.pc = "probe", !.probes = @ + 1]]
    /\ UNCHANGED <<cachedCRLSet, nextId, heap, verified, vq, cq, pq, uq>>

\* downloadLatestCRLSetCrx rejects
DownloadFails(c, e) ==
    /\ calls[c].pc = "download"
    /\ calls' = [calls EXCEPT ![c] = Rejects([@ EXCEPT !.fault = e], e, cachedCRLSet)]
    /\ UNCHANGED <<cachedCRLSet, clock, nextId, heap, verified, started, vq, cq, pq, uq>>

\* downloadLatestCRLSetCrx resolves and processCrx runs on the buffer
DownloadResolves(c, crxBuffer) ==
    /\ calls[c].pc = "download"
    /\ calls' = [calls EXCEPT ![c] =
           [@ EXCEPT !.pc = "processed",
                     !.crxBuffer = Defined(crxBuffer),
                     !.proc = Defined(Processed[crxBuffer, calls[c].verifySignature])]]
    /\ UNCHANGED <<cachedCRLSet, clock, nextId, heap, verified, started, vq, cq, pq, uq>>

\* variant: a failed refresh falls back to the cached set
StoreWithFallback(c) ==
    /\ calls[c].pc = "processed"
    /\ LET proc == ValueOf(calls[c].proc)
           made == NewCRLSet(nextId, proc.outcome.value.header,
                             proc.outcome.value.revocations)
       IN  IF proc.outcome.kind = "throw"
           THEN /\ calls' = [calls EXCEPT ![c] =
                       IF cachedCRLSet = Null
                       THEN Rejects(@, proc.outcome.error, cachedCRLSet)
                       ELSE Returns(@, cachedCRLSet, cachedCRLSet)]
                /\ UNCHANGED <<cachedCRLSet, nextId, heap, verified>>
           ELSE IF made.kind = "throw"
           THEN /\ calls' = [calls EXCEPT ![c] = Rejects(@, made.error, cachedCRLSet)]
                /\ UNCHANGED <<cachedCRLSet, nextId, heap, verified>>
           ELSE /\ cachedCRLSet' = made.value
                /\ nextId' = nextId + 1
                /\ heap' = Append(heap, made.value)
                /\ verified' = Append(verified, proc.verifier)
                /\ calls' = [calls EXCEPT ![c] =
                       Returns([@ EXCEPT !.wrote = TRUE], made.value, made.value)]
    /\ UNCHANGED <<clock, started, vq, cq, pq, uq>>

\* variant: the new set is returned but the cache cell is left as it is
StoreWithoutCaching(c) ==
    /\ calls[c].pc = "processed"
    /\ LET proc == ValueOf(calls[c].proc)
           made == NewCRLSet(nextId, proc.outcome.value.header,
                             proc.outcome.value.revocations)
       IN  IF proc.outcome.kind = "throw"
           THEN /\ calls' = [calls EXCEPT ![c] = Rejects(@, proc.outcome.error, cachedCRLSet)]
                /\ UNCHANGED <<cachedCRLSet, nextId, heap, verified>>
           ELSE IF made.kind = "throw"
           THEN /\ calls' = [calls EXCEPT ![c] = Rejects(@, made.error, cachedCRLSet)]
                /\ UNCHANGED <<cachedCRLSet, nextId, heap, verified>>
           ELSE /\ UNCHANGED cachedCRLSet
                /\ nextId' = nextId + 1
                /\ heap' = Append(heap, made.value)
                /\ verified' = Append(verified, proc.verifier)
                /\ calls' = [calls EXCEPT ![c] = Returns(@, made.value, cachedCRLSet)]
    /\ UNCHANGED <<clock, started, vq, cq, pq, uq>>

\* variant: the cached object is refilled instead of a new one being constructed
StoreInPlace(c) ==
    /\ calls[c].pc = "processed"
    /\ LET proc == ValueOf(calls[c].proc)
           made == NewCRLSet(nextId, proc.outcome.value.header,
                             proc.outcome.value.revocations)
           refilled == [made.value EXCEPT !.id = cachedCRLSet.id]
       IN  IF proc.outcome.kind = "throw"
           THEN /\ calls' = [calls EXCEPT ![c] = Rejects(@, proc.outcome.error, cachedCRLSet)]
                /\ UNCHANGED <<cachedCRLSet, nextId, heap, verified>>
           ELSE IF made.kind = "throw"
           THEN /\ calls' = [calls EXCEPT ![c] = Rejects(@, made.error, cachedCRLSet)]
                /\ UNCHANGED <<cachedCRLSet, nextId, heap, verified>>
           ELSE IF cachedCRLSet # Null
           THEN /\ cachedCRLSet' = refilled
                /\ heap' = [heap EXCEPT ![cachedCRLSet.id] = refilled]
                /\ verified' = [verified EXCEPT ![cachedCRLSet.id] = proc.verifier]
                /\ UNCHANGED nextId
                /\ calls' = [calls EXCEPT ![c] =
                       Returns([@ EXCEPT !.wrote = TRUE], refilled, refilled)]
           ELSE /\ cachedCRLSet' = made.value
                /\ nextId' = nextId + 1
                /\ heap' = Append(heap, made.value)
                /\ verified' = Append(verified, proc.verifier)
                /\ calls' = [calls EXCEPT ![c] =
                       Returns([@ EXCEPT !.wrote = TRUE], made.value, made.value)]
    /\ UNCHANGED <<clock, started, vq, cq, pq, uq>>

\* variant: a failed refresh empties the cache cell
StoreClearingOnFailure(c) ==
    /\ calls[c].pc = "processed"
    /\ LET proc == ValueOf(calls[c].proc)
           made == NewCRLSet(nextId, proc.outcome.value.header,
                             proc.outcome.value.revocations)
       IN  IF proc.outcome.kind = "throw"
           THEN /\ calls' = [calls EXCEPT ![c] = Rejects(@, proc.outcome.error, Null)]
                /\ cachedCRLSet' = Null
                /\ UNCHANGED <<nextId, heap, verified>>
           ELSE IF made.kind = "throw"
           THEN /\ calls' = [calls EXCEPT ![c] = Rejects(@, made.error, Null)]
                /\ cachedCRLSet' = Null
                /\ UNCHANGED <<nextId, heap, verified>>
           ELSE /\ cachedCRLSet' = made.value
                /\ nextId' = nextId + 1
                /\ heap' = Append(heap, made.value)
                /\ verified' = Append(verified, proc.verifier)
                /\ calls' = [calls EXCEPT ![c] =
                       Returns([@ EXCEPT !.wrote = TRUE], made.value, made.value)]
    /\ UNCHANGED <<clock, started, vq, cq, pq, uq>>

\* the continuation of fetchAndProcessNewSet after processCrx settles
Store(c) ==
    /\ calls[c].pc = "processed"
    /\ LET proc == ValueOf(calls[c].proc)
           made == NewCRLSet(nextId, proc.outcome.value.header,
                             proc.outcome.value.revocations)
       IN  IF proc.outcome.kind = "throw"
           THEN /\ calls' = [calls EXCEPT ![c] = Rejects(@, proc.outcome.error, cachedCRLSet)]
                /\ UNCHANGED <<cachedCRLSet, nextId, heap, verified>>
           ELSE IF made.kind = "throw"
           THEN /\ calls' = [calls EXCEPT ![c] = Rejects(@, made.error, cachedCRLSet)]
                /\ UNCHANGED <<cachedCRLSet, nextId, heap, verified>>
           ELSE /\ cachedCRLSet' = made.value
                /\ nextId' = nextId + 1
                /\ heap' = Append(heap, made.value)
                /\ verified' = Append(verified, proc.verifier)
                /\ calls' = [calls EXCEPT ![c] =
                       Returns([@ EXCEPT !.wrote = TRUE], made.value, made.value)]
    /\ UNCHANGED <<clock, started, vq, cq, pq, uq>>

\* fetchRemoteHeader rejects
ProbeFails(c, e) ==
    /\ calls[c].pc = "probe"
    /\ calls' = [calls EXCEPT ![c] = Rejects([@ EXCEPT !.fault = e], e, cachedCRLSet)]
    /\ UNCHANGED <<cachedCRLSet, clock, nextId, heap, verified, started, vq, cq, pq, uq>>

\* fetchRemoteHeader resolves: the comparison reads the cache cell as it is now
ProbeResolves(c, remoteSequence) ==
    /\ calls[c].pc = "probe"
    /\ LET call == [calls[c] EXCEPT !.remote = Defined(remoteSequence)]
       IN  calls' = [calls EXCEPT ![c] =
               IF isNewer(remoteSequence, cachedCRLSet) THEN BeginFetch(call)
               ELSE Returns(call, cachedCRLSet, cachedCRLSet)]
    /\ UNCHANGED <<cachedCRLSet, clock, nextId, heap, verified, started, vq, cq, pq, uq>>

NoVerifyQuery == [state |-> "idle"]
NoCheckQuery == [state |-> "idle"]
NoParseQuery == [state |-> "idle"]
NoUnpackQuery == [state |-> "idle"]

Init ==
    /\ cachedCRLSet = Null
    /\ calls = [c \in CallIds |-> IdleCall]
    /\ clock = 0
    /\ nextId = 1
    /\ heap = <<>>
    /\ verified = <<>>
    /\ pq = NoParseQuery
    /\ uq = NoUnpackQuery
    /\ started = 0
    /\ vq = NoVerifyQuery
    /\ cq = NoCheckQuery

Next ==
    \/ \E c \in CallIds, verify \in BOOLEAN, strategy \in {"always", "on-expiry"},
          now \in Times : Start(c, verify, strategy, now)
    \/ \E c \in CallIds, e \in DownloadErrors : DownloadFails(c, e)
    \/ \E c \in CallIds, crxBuffer \in Containers : DownloadResolves(c, crxBuffer)
    \/ \E c \in CallIds : Store(c)
    \/ \E c \in CallIds, e \in ProbeErrors : ProbeFails(c, e)
    \/ \E c \in CallIds, remoteSequence \in RemoteSequences : ProbeResolves(c, remoteSequence)

Spec == Init /\ [][Next]_vars

----------------------------------------------------------------------------
(* verifySignature applied to one header and payload                       *)

MaxProofs == 2

ReferencePayload == <<1>>
TamperedPayload == <<2>>

\* the proofs a header may carry: the component's proof of the reference payload,
\* another key's proof, a proof without key, the component's key without
\* signature, and a proof by a key with the same identifier
ProofPool == {
    Proof(CrlSetKey, CrlSetKey, ReferencePayload),
    Proof(NearMissKey, NearMissKey, ReferencePayload),
    [Proof(OtherKey, OtherKey, ReferencePayload) EXCEPT !.publicKey = Undefined],
    [Proof(CrlSetKey, CrlSetKey, ReferencePayload) EXCEPT !.signature = Undefined],
    Proof(CollidingKey, CollidingKey, ReferencePayload) }

RECURSIVE SeqsUpTo(_, _)
SeqsUpTo(S, n) ==
    IF n = 0 THEN {<<>>}
    ELSE LET shorter == SeqsUpTo(S, n - 1)
         IN  shorter \cup {Append(q, x) : q \in {r \in shorter : Len(r) = n - 1}, x \in S}

ProofLists == {Undefined} \cup {Defined(l) : l \in SeqsUpTo(ProofPool, MaxProofs)}

\* absent, empty, the reference data, the reference data with a byte changed,
\* three other bytes, and a string that decodes to no byte
SignedHeaderDatas ==
    {Undefined, Defined(<<>>), Defined(ToBase64(SignedHeaderData)), Defined(ToBase64(<<9, 8>>)),
     Defined(ToBase64(<<7, 8, 9>>)), Defined(<<"=">>)}

VerifyHeaders ==
    [sha256WithRsa : ProofLists, sha256WithEcdsa : ProofLists,
     signedHeaderData : SignedHeaderDatas]

InitVerify ==
    /\ cachedCRLSet = Null
    /\ calls = [c \in CallIds |-> IdleCall]
    /\ clock = 0
    /\ nextId = 1
    /\ heap = <<>>
    /\ verified = <<>>
    /\ pq = NoParseQuery
    /\ uq = NoUnpackQuery
    /\ started = 0
    /\ cq = NoCheckQuery
    /\ \E header \in VerifyHeaders, zipBuffer \in {ReferencePayload, TamperedPayload} :
          vq = [state |-> "called", header |-> header, zipBuffer |-> zipBuffer,
                outcome |-> Throw("pending")]

ApplyVerify ==
    /\ vq.state = "called"
    /\ vq' = [vq EXCEPT !.state = "settled",
                        !.outcome = verifySignature(vq.header, vq.zipBuffer)]
    /\ UNCHANGED <<cachedCRLSet, calls, clock, nextId, heap, verified, started, cq, pq, uq>>

NextVerify == ApplyVerify

SpecVerify == InitVerify /\ [][NextVerify]_vars

----------------------------------------------------------------------------
(* CRLSet queries: one set asked about two (issuer, serial) pairs           *)

EntryB == [spki |-> HashB, serials |-> <<SerialX>>]

\* the CRLSet the pipeline builds from a CRLSet file
SetOf(id, crlSetBuffer) ==
    NewCRLSet(id, parseCRLSet(crlSetBuffer).value.header,
              parseCRLSet(crlSetBuffer).value.revocations).value

\* issuer B blocked and A listed; nothing blocked and A, C listed; B blocked and listed
QuerySets == {
    SetOf(1, CrlSetFile1),
    SetOf(1, CrlSetFile2),
    SetOf(1, EncodeCRLSet(<<1>>, <<EntryB>>)) }

UpperChar(c) == IF IndexOf(LowerLetters, c) = 0 THEN c
                ELSE UpperLetters[IndexOf(LowerLetters, c)]

ToUpperCase(s) == [i \in DOMAIN s |-> UpperChar(s[i])]

\* upper case at the odd positions only
MixedCase(s) == [i \in DOMAIN s |-> IF i % 2 = 1 THEN UpperChar(s[i]) ELSE s[i]]

SpkiInputs == {
    ToHex(HashA), ToUpperCase(ToHex(HashA)),
    ToHex(HashB), MixedCase(ToHex(HashB)),
    ToHex(HashC),
    ToHex(Repeat(221, 32)) }

SerialInputs == {
    ToHex(SerialX), ToUpperCase(ToHex(SerialX)), <<"0", "A", "0", "b">>,
    ToHex(SerialY),
    <<"f", "f">>, <<"F", "F">> }

Answers(set, spkiHash, serialNumber) ==
    [bySpki |-> isRevokedBySPKI(set, spkiHash),
     bySerial |-> isRevokedBySerial(set, spkiHash, serialNumber),
     status |-> check(set, spkiHash, serialNumber)]

NoAnswers == [bySpki |-> FALSE, bySerial |-> FALSE, status |-> "pending"]

InitCheck ==
    /\ cachedCRLSet = Null
    /\ calls = [c \in CallIds |-> IdleCall]
    /\ clock = 0
    /\ nextId = 1
    /\ heap = <<>>
    /\ verified = <<>>
    /\ pq = NoParseQuery
    /\ uq = NoUnpackQuery
    /\ started = 0
    /\ vq = NoVerifyQuery
    /\ \E set \in QuerySets, spki1 \in SpkiInputs, serial1 \in SerialInputs,
          spki2 \in SpkiInputs, serial2 \in SerialInputs :
          cq = [state |-> "called", set |-> set,
                spkiHash |-> spki1, serialNumber |-> serial1,
                spkiHash2 |-> spki2, serialNumber2 |-> serial2,
                first |-> NoAnswers, second |-> NoAnswers]

ApplyCheck ==
    /\ cq.state = "called"
    /\ cq' = [cq EXCEPT !.state = "settled",
                        !.first = Answers(cq.set, cq.spkiHash, cq.serialNumber),
                        !.second = Answers(cq.set, cq.spkiHash2, cq.serialNumber2)]
    /\ UNCHANGED <<cachedCRLSet, calls, clock, nextId, heap, verified, started, vq, pq, uq>>

NextCheck == ApplyCheck

SpecCheck == InitCheck /\ [][NextCheck]_vars

----------------------------------------------------------------------------
(* parseCRLSet applied to one buffer: a file written in the CRLSet layout, *)
(* whole or cut to a prefix                                                *)

\* entries that repeat issuer A, one serial each
EntryAX == [spki |-> HashA, serials |-> <<SerialX>>]
EntryAY == [spki |-> HashA, serials |-> <<SerialY>>]
\* issuer A with its serials in the other order, an issuer without serials, a
\* serial of no bytes, a serial of 255 bytes
EntryAReversed == [spki |-> HashA, serials |-> <<SerialY, SerialX>>]
EntryBNone == [spki |-> HashB, serials |-> <<>>]
EntryCEmptySerial == [spki |-> HashC, serials |-> <<<<>>, SerialY>>]
EntryBLong == [spki |-> HashB, serials |-> <<Repeat(7, 255)>>]

\* header bytes and entries of the files written; the header names as many
\* parents as there are entries
ParseFiles == {
    [headerBytes |-> <<4>>, entries |-> <<>>],
    [headerBytes |-> <<1>>, entries |-> <<EntryA>>],
    [headerBytes |-> <<1>>, entries |-> <<EntryBLong>>],
    [headerBytes |-> <<2>>, entries |-> <<EntryA, EntryC>>],
    [headerBytes |-> <<2>>, entries |-> <<EntryC, EntryAReversed>>],
    [headerBytes |-> <<2>>, entries |-> <<EntryAX, EntryAY>>],
    [headerBytes |-> <<5>>, entries |-> <<EntryBNone, EntryCEmptySerial, EntryA>>],
    [headerBytes |-> <<5>>, entries |-> <<EntryA, EntryBNone, EntryCEmptySerial>>] }

InitParse ==
    /\ cachedCRLSet = Null
    /\ calls = [c \in CallIds |-> IdleCall]
    /\ clock = 0
    /\ nextId = 1
    /\ heap = <<>>
    /\ verified = <<>>
    /\ started = 0
    /\ vq = NoVerifyQuery
    /\ cq = NoCheckQuery
    /\ uq = NoUnpackQuery
    /\ \E file \in ParseFiles :
          LET whole == EncodeCRLSet(file.headerBytes, file.entries)
          IN  \E kept \in 0..Len(whole) :
                 pq = [state |-> "called", file |-> file, whole |-> Len(whole),
                       crlSetBuffer |-> SubSeq(whole, 1, kept), outcome |-> Throw("pending")]

ApplyParse ==
    /\ pq.state = "called"
    /\ pq' = [pq EXCEPT !.state = "settled", !.outcome = parseCRLSet(pq.crlSetBuffer)]
    /\ UNCHANGED <<cachedCRLSet, calls, clock, nextId, heap, verified, started, vq, cq, uq>>

NextParse == ApplyParse

SpecParse == InitParse /\ [][NextParse]_vars

----------------------------------------------------------------------------
(* unpackCrx applied to one buffer                                         *)

\* 'Cr24' with the high bit of every byte set, and a tag that differs in its
\* last character
HighBitMagic == <<195, 242, 178, 180>>
NearMagic == <<67, 114, 50, 53>>

MagicWords == {CRX_MAGIC, BadMagicBytes, HighBitMagic, NearMagic}

\* version fields: 3, 0, 2, 4, and 3 with a higher byte set
VersionWords == {<<3, 0, 0, 0>>, <<0, 0, 0, 0>>, <<2, 0, 0, 0>>, <<4, 0, 0, 0>>,
                 <<3, 1, 0, 0>>, <<3, 0, 0, 128>>, <<255, 255, 255, 255>>}

\* header length fields: 0 to 3, 65536, 2^32 - 12 and 2^32 - 11 (whose sums with
\* 12 are 2^32 and 2^32 + 1), 2^32 - 1, 2^31
LengthWords == {<<0, 0, 0, 0>>, <<1, 0, 0, 0>>, <<2, 0, 0, 0>>, <<3, 0, 0, 0>>,
                <<0, 0, 1, 0>>, <<244, 255, 255, 255>>, <<245, 255, 255, 255>>,
                <<255, 255, 255, 255>>, <<0, 0, 0, 128>>}

\* what follows the 12-byte prefix: nothing, a header region, a header region
\* and a payload, bytes no decoder accepts
Remainders == {<<>>, <<1>>, <<1, 1>>, <<9, 2>>, <<200, 200, 200>>}

\* the buffers: every such file and every prefix of one
UnpackInputs ==
    UNION {{SubSeq(magic \o version \o length \o rest, 1, kept) :
               kept \in 0..(12 + Len(rest))} :
              magic \in MagicWords, version \in VersionWords,
              length \in LengthWords, rest \in Remainders}

InitUnpack ==
    /\ cachedCRLSet = Null
    /\ calls = [c \in CallIds |-> IdleCall]
    /\ clock = 0
    /\ nextId = 1
    /\ heap = <<>>
    /\ verified = <<>>
    /\ started = 0
    /\ vq = NoVerifyQuery
    /\ cq = NoCheckQuery
    /\ pq = NoParseQuery
    /\ \E crxBuffer \in UnpackInputs :
          uq = [state |-> "called", crxBuffer |-> crxBuffer, outcome |-> Throw("pending")]

ApplyUnpack ==
    /\ uq.state = "called"
    /\ uq' = [uq EXCEPT !.state = "settled", !.outcome = unpackCrx(uq.crxBuffer)]
    /\ UNCHANGED <<cachedCRLSet, calls, clock, nextId, heap, verified, started, vq, cq, pq>>

NextUnpack == ApplyUnpack

SpecUnpack == InitUnpack /\ [][NextUnpack]_vars

----------------------------------------------------------------------------
(* Properties of loadLatestCRLSet and processCrx (under Spec)              *)

Settled(c) == calls[c].pc = "done"
Begun(c) == calls[c].pc # "idle"

\* what the stages answer on each container, evaluated once
Unpacked == [crxBuffer \in Containers |-> unpackCrx(crxBuffer)]

VerifierAnswer ==
    [crxBuffer \in Containers |->
        IF Unpacked[crxBuffer].kind = "throw" THEN Throw("not unpacked")
        ELSE verifySignature(Unpacked[crxBuffer].value.header,
                             Unpacked[crxBuffer].value.zipBuffer)]

\* C1: processCrx with verification enabled, on a container that unpacks: if the
\* verifier answers false it fails with 'CRX signature verification failed.' and
\* neither opens the archive nor parses a CRLSet; it returns a header and an index
\* only when the verifier answered true.
C1_FalseVerdictStopsPipeline ==
    \A c \in CallIds :
        (/\ calls[c].proc # Undefined
         /\ calls[c].verifySignature
         /\ Unpacked[ValueOf(calls[c].crxBuffer)].kind = "return")
        => LET answer == VerifierAnswer[ValueOf(calls[c].crxBuffer)]
               proc == ValueOf(calls[c].proc)
           IN  /\ answer = Return(FALSE)
                    => /\ proc.outcome = Throw(SignatureFailed)
                       /\ ~proc.extracted
                       /\ ~proc.parsed
               /\ proc.outcome.kind = "return" => answer = Return(TRUE)

\* a verifying call whose container carries a signature made for another payload
C1_Witness ==
    \E c \in CallIds :
        /\ calls[c].proc # Undefined
        /\ calls[c].verifySignature
        /\ VerifierAnswer[ValueOf(calls[c].crxBuffer)] = Return(FALSE)
        /\ ValueOf(calls[c].proc).outcome = Throw(SignatureFailed)
        /\ Settled(c)
        /\ calls[c].outcome = "threw"

\* C2: a call in which a step fails (download, header probe, unpacking,
\* verification, extraction, parsing) rejects with that failure and returns no
\* CRLSet, neither the cached one nor one built from the download.
C2_FirstFailureSurfaces ==
    \A c \in CallIds :
        Settled(c) =>
            /\ calls[c].fault # ""
                 => /\ calls[c].outcome = "threw"
                    /\ calls[c].error = calls[c].fault
                    /\ calls[c].result = Null
            /\ (calls[c].proc # Undefined /\ ValueOf(calls[c].proc).outcome.kind = "throw")
                 => /\ calls[c].outcome = "threw"
                    /\ calls[c].error = ValueOf(calls[c].proc).outcome.error
                    /\ calls[c].result = Null

\* a verifying call that found a cached set and whose download fails verification
C2_Witness ==
    \E c \in CallIds :
        /\ Settled(c)
        /\ calls[c].seen # Null
        /\ calls[c].proc # Undefined
        /\ ValueOf(calls[c].proc).outcome = Throw(SignatureFailed)
        /\ calls[c].outcome = "threw"
        /\ calls[c].error = SignatureFailed
        /\ calls[c].result = Null
        /\ cachedCRLSet = calls[c].seen

\* the call found a cached set whose NotAfter is defined
SawNotAfter(c) == calls[c].seen # Null /\ calls[c].seen.header.NotAfter # Undefined

\* the call re-ran the pipeline: one download, no probe, and not the set it found
Refetched(c) ==
    /\ calls[c].downloads = 1
    /\ calls[c].probes = 0
    /\ (Settled(c) /\ calls[c].outcome = "returned")
          => (calls[c].wrote /\ calls[c].result.id # calls[c].seen.id)

\* C9 as stated: with a cached set and now >= its NotAfter (now = NotAfter
\* included) the call re-runs the full pipeline under both strategies and does
\* not return the cached set.
C9_RefetchFromNotAfter ==
    \A c \in CallIds :
        (Begun(c) /\ SawNotAfter(c) /\ calls[c].now >= ValueOf(calls[c].seen.header.NotAfter))
        => Refetched(c)

\* C9 amended: with a cached set and now > its NotAfter the call re-runs the full
\* pipeline (one download, no probe) under both strategies and does not return
\* the cached set.
C9_RefetchAfterNotAfter ==
    \A c \in CallIds :
        (Begun(c) /\ SawNotAfter(c) /\ calls[c].now > ValueOf(calls[c].seen.header.NotAfter))
        => Refetched(c)

\* an 'on-expiry' call after NotAfter that downloaded and returned a new set
C9_Witness ==
    \E c \in CallIds :
        /\ Settled(c)
        /\ SawNotAfter(c)
        /\ calls[c].now > ValueOf(calls[c].seen.header.NotAfter)
        /\ calls[c].updateStrategy = "on-expiry"
        /\ calls[c].downloads = 1
        /\ calls[c].outcome = "returned"
        /\ calls[c].result.id # calls[c].seen.id

\* C10: a call that finds the cache empty performs exactly one full download and
\* no header probe; when the pipeline succeeds it stores the CRLSet built from the
\* download in the cache and returns that same CRLSet.
C10_EmptyCacheOneDownload ==
    \A c \in CallIds :
        (Begun(c) /\ calls[c].seen = Null)
        => /\ calls[c].downloads = 1
           /\ calls[c].probes = 0
           /\ (Settled(c) /\ calls[c].outcome = "returned")
                 => /\ calls[c].wrote
                    /\ calls[c].result # Null
                    /\ calls[c].result = calls[c].cacheAtEnd
                    /\ calls[c].result.header = ValueOf(calls[c].proc).outcome.value.header
                    /\ calls[c].result.revocations
                           = ValueOf(calls[c].proc).outcome.value.revocations

\* the first call of a run, 'on-expiry', returned the set it stored
C10_Witness ==
    \E c \in CallIds :
        /\ Settled(c)
        /\ calls[c].seen = Null
        /\ calls[c].updateStrategy = "on-expiry"
        /\ calls[c].outcome = "returned"
        /\ calls[c].downloads = 1
        /\ cachedCRLSet = calls[c].result

\* the call found a cached set and began before that set's NotAfter
SawFresh(c) ==
    /\ Begun(c)
    /\ SawNotAfter(c)
    /\ calls[c].now < ValueOf(calls[c].seen.header.NotAfter)

\* C11: with a cached set that is not expired, an 'on-expiry' call returns the
\* cached set itself, leaves the cache cell as it was, and neither downloads nor
\* probes the remote header.
C11_OnExpiryServesCache ==
    \A c \in CallIds :
        (SawFresh(c) /\ calls[c].updateStrategy = "on-expiry")
        => /\ Settled(c)
           /\ calls[c].outcome = "returned"
           /\ calls[c].result = calls[c].seen
           /\ calls[c].cacheAtEnd = calls[c].seen
           /\ ~calls[c].wrote
           /\ calls[c].downloads = 0
           /\ calls[c].probes = 0

\* an 'on-expiry' call before NotAfter that was handed the cached set
C11_Witness ==
    \E c \in CallIds :
        /\ SawFresh(c)
        /\ calls[c].updateStrategy = "on-expiry"
        /\ calls[c].outcome = "returned"
        /\ calls[c].result = cachedCRLSet
        /\ calls[c].downloads = 0

\* a > b on Sequence values, false when either is undefined
Greater(a, b) == a # Undefined /\ b # Undefined /\ ValueOf(a) > ValueOf(b)

\* the step in which the header probe of call c resolves
ProbeAnswered(c) ==
    /\ calls[c].pc = "probe"
    /\ calls'[c].pc # "probe"
    /\ calls'[c].fault = ""

\* C12: with a cached set that is not expired, an 'always' call probes the remote
\* header exactly once; when the probe resolves it starts a full download if and
\* only if the probed Sequence is strictly greater than the cached Sequence, and
\* otherwise returns the cached set and leaves the cache as it is; a download that
\* succeeds replaces the cache.
C12_AlwaysProbesOnce ==
    /\ [](\A c \in CallIds :
            (SawFresh(c) /\ calls[c].updateStrategy = "always")
            => /\ calls[c].probes = 1
               /\ calls[c].downloads <= 1
               /\ calls[c].downloads = 1 => calls[c].remote # Undefined
               /\ (Settled(c) /\ calls[c].outcome = "returned" /\ calls[c].downloads = 1)
                     => (calls[c].wrote /\ calls[c].result = calls[c].cacheAtEnd
                         /\ calls[c].result.id # calls[c].seen.id)
               /\ (Settled(c) /\ calls[c].outcome = "returned" /\ calls[c].downloads = 0)
                     => (~calls[c].wrote /\ calls[c].result = calls[c].cacheAtEnd))
    /\ [][\A c \in CallIds :
            (SawFresh(c) /\ calls[c].updateStrategy = "always" /\ ProbeAnswered(c))
            => LET newer == Greater(ValueOf(calls'[c].remote), cachedCRLSet.header.Sequence)
               IN  /\ newer <=> (calls'[c].pc = "download" /\ calls'[c].downloads = 1)
                   /\ ~newer => /\ calls'[c].pc = "done"
                                /\ calls'[c].outcome = "returned"
                                /\ calls'[c].result = cachedCRLSet
                                /\ calls'[c].downloads = 0
                                /\ cachedCRLSet' = cachedCRLSet]_vars

\* an 'always' call before NotAfter whose probe reported the cached Sequence
C12_Witness ==
    \E c \in CallIds :
        /\ SawFresh(c)
        /\ calls[c].updateStrategy = "always"
        /\ Settled(c)
        /\ calls[c].remote = Defined(calls[c].seen.header.Sequence)
        /\ calls[c].probes = 1
        /\ calls[c].downloads = 0
        /\ calls[c].result = calls[c].seen

\* both calls are suspended inside a refresh they decided on seeing the same cache
DuplicateRefresh(c, d) ==
    /\ c # d
    /\ calls[c].pc \in {"download", "processed"}
    /\ calls[d].pc \in {"download", "processed"}
    /\ calls[c].seen = calls[d].seen

\* C13: overlapping calls are serialized around the cache cell: two calls are
\* never both inside a full download that each decided on after observing the same
\* empty or stale cache.
C13_RefreshesSerialized ==
    \A c \in CallIds, d \in CallIds : ~DuplicateRefresh(c, d)

\* what parseCRLSet returns on the CRLSet files of the archives
CompleteParses ==
    {parseCRLSet(Archives[k].data).value :
        k \in {i \in DOMAIN Archives : parseCRLSet(Archives[i].data).kind = "return"}}

\* what the constructor builds from them, the identity left open
CompleteSets ==
    {NewCRLSet(0, parsed.header, parsed.revocations).value :
        parsed \in {q \in CompleteParses :
                       NewCRLSet(0, q.header, q.revocations).kind = "return"}}

\* the set is what the constructor builds from one complete parse
Constructed(set) == set.id \in DOMAIN heap /\ [set EXCEPT !.id = 0] \in CompleteSets

\* the queries that tell the two deliverable sets apart
ProbeSpkis == {ToHex(HashB), ToHex(HashC)}
ProbeSerials == {ToHex(SerialX), ToHex(SerialY)}

\* the object answers now as the snapshot taken when it was returned: it is
\* unchanged, or at least every query gets the answer it got then
AnswersAsReturned(set) ==
    /\ set.id \in DOMAIN heap
    /\ \/ heap[set.id] = set
       \/ \A spkiHash \in ProbeSpkis, serialNumber \in ProbeSerials :
             Answers(heap[set.id], spkiHash, serialNumber) = Answers(set, spkiHash, serialNumber)

\* C14: in every state, also while a refresh is suspended at a fetch, the cache
\* cell holds nothing or one completely constructed CRLSet; and a CRLSet a call
\* returned keeps answering check, isRevokedBySPKI and isRevokedBySerial as it did,
\* also after the cache has been replaced.
C14_CacheWholeOldSetsStable ==
    /\ cachedCRLSet # Null => (Constructed(cachedCRLSet) /\ AnswersAsReturned(cachedCRLSet))
    /\ \A c \in CallIds :
          (Settled(c) /\ calls[c].outcome = "returned") => AnswersAsReturned(calls[c].result)

\* a returned set that the cache has since moved on from, with another refresh
\* suspended; the old set still reports issuer B blocked, the cached one does not
C14_Witness ==
    \E c \in CallIds, d \in CallIds :
        /\ Settled(c)
        /\ calls[c].outcome = "returned"
        /\ cachedCRLSet # Null
        /\ calls[c].result.id # cachedCRLSet.id
        /\ check(heap[calls[c].result.id], ToHex(HashB), ToHex(SerialX)) = REVOKED_BY_SPKI
        /\ check(cachedCRLSet, ToHex(HashB), ToHex(SerialX)) = OK
        /\ calls[d].pc = "done"
        /\ calls[d].wrote
        /\ d # c

\* the container with the same payload and a header whose proof for the
\* component is a valid signature of that payload
Resigned(crxBuffer) ==
    LET payload == unpackCrx(crxBuffer).value.zipBuffer
    IN  EncodeCrx(CRX_MAGIC, 3, payload, payload)

\* what the stages after unpacking yield on a container, the verifier left aside
ParsedPlainly ==
    [crxBuffer \in Containers |->
        LET unpacked == unpackCrx(crxBuffer)
            crlSetBuffer == extractCrlSetFromZip(unpacked.value.zipBuffer)
        IN  IF unpacked.kind = "throw" \/ crlSetBuffer.kind = "throw" THEN Throw("none")
            ELSE parseCRLSet(crlSetBuffer.value)]

\* processCrx with verification on the resigned form of each container that
\* parses, evaluated once
ProcessedResigned ==
    [crxBuffer \in {b \in Containers : ParsedPlainly[b].kind = "return"} |->
        Processed[Resigned(crxBuffer), TRUE]]

\* C22: processCrx with verifySignature = false never invokes the signature
\* verifier (observed when it settles): for every container that unpacks, holds a 'crl-set' entry and
\* parses, it returns the parsed header and index whether or not the signature
\* is valid, and the result equals the one returned with verifySignature = true
\* for the same container with a valid signature.
C22_UnverifiedSkipsVerifier ==
    \A c \in CallIds :
        (calls[c].pc = "processed" /\ ~calls[c].verifySignature)
        => LET crxBuffer == ValueOf(calls[c].crxBuffer)
               proc == ValueOf(calls[c].proc)
           IN  /\ proc.verifier = "not called"
               /\ ParsedPlainly[crxBuffer].kind = "return"
                  => /\ proc.outcome = ParsedPlainly[crxBuffer]
                     /\ ProcessedResigned[crxBuffer].verifier = "true"
                     /\ ProcessedResigned[crxBuffer].outcome = proc.outcome

\* processCrx has settled for a call without verification on the container whose
\* signature was made for another payload: it returned the parsed set
C22_Witness ==
    \E c \in CallIds :
        /\ calls[c].pc = "processed"
        /\ ~calls[c].verifySignature
        /\ calls[c].crxBuffer = Defined(EncodeCrx(CRX_MAGIC, 3, <<6>>, <<2>>))
        /\ Processed[EncodeCrx(CRX_MAGIC, 3, <<6>>, <<2>>), TRUE].outcome = Throw(SignatureFailed)
        /\ ValueOf(calls[c].proc).outcome.kind = "return"
        /\ ValueOf(calls[c].proc).outcome.value.header.Sequence = Defined(2)
        /\ ValueOf(calls[c].proc).verifier = "not called"

\* C25: every CRLSet returned by a call made with verifySignature = true was
\* produced by a pipeline run in which signature verification was performed and
\* succeeded; a set cached by a call with verifySignature = false is never
\* returned to a caller that asked for verification.
C25_VerifiedSetsToVerifyingCallers ==
    \A c \in CallIds :
        (calls[c].outcome = "returned" /\ calls[c].verifySignature)
        => verified[calls[c].result.id] = "true"

\* the set's NotAfter is before the given time
HardExpired(set, now) ==
    set.header.NotAfter # Undefined /\ ValueOf(set.header.NotAfter) < now

\* C27: every CRLSet a call returns is not hard-expired with respect to the time
\* the call read at its start, also when it is the set the call has just
\* downloaded; a hard-expired snapshot is never stored in the cache as the result
\* of a refresh.
C27_ReturnedSetNotExpired ==
    \A c \in CallIds :
        calls[c].outcome = "returned"
        => /\ ~HardExpired(calls[c].result, calls[c].now)
           /\ calls[c].wrote => ~HardExpired(calls[c].cacheAtEnd, calls[c].now)

\* call c, which probed the remote header, writes the cache cell in this step
\* over a set that is not expired at the time the call read
ReplacesFresh(c) ==
    /\ calls[c].updateStrategy = "always"
    /\ calls[c].probes = 1
    /\ ~calls[c].wrote
    /\ calls'[c].wrote
    /\ cachedCRLSet # Null
    /\ ~HardExpired(cachedCRLSet, calls[c].now)

\* C28: whenever a call replaces a cached set that is not expired (the 'always'
\* path), the Sequence of the newly cached set is strictly greater than the
\* Sequence of the set it replaces, also when the downloaded container differs
\* from the one the header probe saw and when two refreshing calls overlap.
C28_SequenceNeverDecreases ==
    [][\A c \in CallIds :
          ReplacesFresh(c)
          => Greater(cachedCRLSet'.header.Sequence, cachedCRLSet.header.Sequence)]_vars

\* call c settles as failed in this step
Fails(c) == calls[c].outcome # "threw" /\ calls'[c].outcome = "threw"

\* no other invocation has begun since the first one
RanAlone(c) == \A d \in CallIds \ {c} : calls[d].pc = "idle"

\* the step in which a call fails leaves the cell and the objects as they are
FailureKeepsCell ==
    \A c \in CallIds :
        Fails(c) => /\ cachedCRLSet' = cachedCRLSet
                    /\ heap' = heap
                    /\ calls'[c].cacheAtEnd = cachedCRLSet

\* the cell changes only in the step in which a call returns the set it made
OnlyReturningCallWrites ==
    cachedCRLSet' # cachedCRLSet
    => \E c \in CallIds :
           /\ calls[c].pc = "processed"
           /\ calls'[c].outcome = "returned"
           /\ calls'[c].wrote
           /\ calls'[c].result = cachedCRLSet'

\* C29: a loadLatestCRLSet call that fails never writes the cache cell: after the
\* failure the cell holds the value it held before the call (empty, or the
\* identical CRLSet), so that a later call decides on a refresh as if the failed
\* call had not happened.
C29_FailedCallLeavesCache ==
    /\ [](\A c \in CallIds :
             calls[c].outcome = "threw"
             => /\ ~calls[c].wrote
                /\ RanAlone(c) => (calls[c].cacheAtEnd = calls[c].seen
                                   /\ cachedCRLSet = calls[c].seen))
    /\ [][FailureKeepsCell /\ OnlyReturningCallWrites]_vars

\* a refetch of an expired cached set fails on a container that is not a CRX file:
\* the expired set is still cached
C29_Witness ==
    \E c \in CallIds :
        /\ RanAlone(c)
        /\ calls[c].outcome = "threw"
        /\ calls[c].error = InvalidMagic
        /\ calls[c].seen # Null
        /\ HardExpired(calls[c].seen, calls[c].now)
        /\ cachedCRLSet = calls[c].seen

----------------------------------------------------------------------------
(* Properties of verifySignature (under SpecVerify)                        *)

VerifySettled == vq.state = "settled"

\* the proofs of a header in scan order, an absent list counting as empty
ListOrEmpty(list) == IF list = Undefined THEN <<>> ELSE ValueOf(list)
AllProofs(header) == ListOrEmpty(header.sha256WithRsa) \o ListOrEmpty(header.sha256WithEcdsa)

\* the proof's public key hashes to the component identifier
Matches(proof) ==
    /\ proof.publicKey # Undefined
    /\ SubSeq(Sha256Hex(FromBase64(ValueOf(proof.publicKey))), 1, 32) = crxIdToHex(CRLSET_APP_ID)

HasMatchingProof(header) == \E i \in DOMAIN AllProofs(header) : Matches(AllProofs(header)[i])

FirstMatch(header) ==
    LET proofs == AllProofs(header)
        i == CHOOSE k \in DOMAIN proofs :
                 Matches(proofs[k]) /\ \A m \in 1..(k - 1) : ~Matches(proofs[m])
    IN  proofs[i]

HasSignedHeaderData(header) ==
    header.signedHeaderData # Undefined /\ ValueOf(header.signedHeaderData) # <<>>

\* the proof carries the signature its key's owner made for the message
\* prefix, length of the signed header data, signed header data, payload
ValidFor(proof, header, zipBuffer) ==
    /\ proof.signature # Undefined
    /\ FromBase64(ValueOf(proof.signature)) =
           SignatureOf(FromBase64(ValueOf(proof.publicKey)),
                       SIGNED_DATA_PREFIX
                       \o UInt32LE(Len(FromBase64(ValueOf(header.signedHeaderData))))
                       \o FromBase64(ValueOf(header.signedHeaderData))
                       \o zipBuffer)

\* C3: with signedHeaderData present and a proof with a matching key identifier,
\* verifySignature returns a boolean, never fails, and the boolean is TRUE exactly
\* when the matched proof's signature is valid for the reconstructed message.
C3_ReturnsValidity ==
    (VerifySettled /\ HasSignedHeaderData(vq.header) /\ HasMatchingProof(vq.header))
    => vq.outcome = Return(ValidFor(FirstMatch(vq.header), vq.header, vq.zipBuffer))

\* C4: with signedHeaderData present and no proof of either list (each possibly
\* empty or absent) matching the component identifier, verifySignature fails with
\* the 'no valid publicKey for the CRLSet component found' error.
C4_NoMatchingKeyError ==
    (VerifySettled /\ HasSignedHeaderData(vq.header) /\ ~HasMatchingProof(vq.header))
    => vq.outcome = Throw(NoMatchingKey)

\* C5: a header without signedHeaderData fails with the 'signedHeaderData is
\* missing' error, whatever its proof lists are: the check precedes key discovery.
C5_MissingSignedDataFirst ==
    (VerifySettled /\ vq.header.signedHeaderData = Undefined)
    => vq.outcome = Throw(MissingSignedData)

\* a header with neither signed data nor proof lists fails with the missing-data error
C5_Witness ==
    /\ VerifySettled
    /\ vq.header.signedHeaderData = Undefined
    /\ vq.header.sha256WithRsa = Undefined
    /\ vq.header.sha256WithEcdsa = Undefined
    /\ vq.outcome = Throw(MissingSignedData)

\* C24: the message verifySignature checks is the concatenation, in this order,
\* of the fixed prefix, the 4-byte little-endian length of the decoded
\* signedHeaderData, the decoded signedHeaderData and the whole payload; its
\* length is len(prefix) + 4 + len(signedHeaderData) + len(payload) and the length
\* field equals the number of signedHeaderData bytes that follow it.
C24_SignedMessageLayout ==
    (VerifySettled /\ vq.outcome.kind = "return")
    => LET signedHeaderData == FromBase64(ValueOf(vq.header.signedHeaderData))
           n == Len(signedHeaderData)
           p == Len(SIGNED_DATA_PREFIX)
           message == dataToVerify(vq.header, vq.zipBuffer)
           proof == FirstMatch(vq.header)
       IN  /\ Len(message) = p + 4 + n + Len(vq.zipBuffer)
           /\ SubSeq(message, 1, p) = SIGNED_DATA_PREFIX
           /\ SubSeq(message, p + 1, p + 4) = <<n, 0, 0, 0>>
           /\ SubSeq(message, p + 5, p + 4 + n) = signedHeaderData
           /\ SubSeq(message, p + 5 + n, Len(message)) = vq.zipBuffer
           /\ vq.outcome.value =
                  (FromBase64(ValueOf(proof.signature)) =
                      SignatureOf(FromBase64(ValueOf(proof.publicKey)),
                                  SIGNED_DATA_PREFIX \o <<n, 0, 0, 0>> \o signedHeaderData
                                  \o vq.zipBuffer))

\* the component's proof verifies for the reference payload under the reference
\* signed header data
C24_Witness ==
    /\ VerifySettled
    /\ vq.header.signedHeaderData = Defined(ToBase64(SignedHeaderData))
    /\ vq.header.sha256WithRsa = Defined(<<Proof(CrlSetKey, CrlSetKey, ReferencePayload)>>)
    /\ vq.header.sha256WithEcdsa = Defined(<<>>)
    /\ vq.zipBuffer = ReferencePayload
    /\ vq.outcome = Return(TRUE)

\* the header that carries the first matching proof of a header and nothing else
OnlyFirstMatch(header) ==
    [sha256WithRsa |-> Defined(<<FirstMatch(header)>>),
     sha256WithEcdsa |-> Defined(<<>>),
     signedHeaderData |-> header.signedHeaderData]

\* C23: key discovery scans the RSA list and then the ECDSA list in order and
\* uses the public key and signature of the first proof whose key identifier
\* matches; later matching proofs are never used, so the outcome is the one the
\* first match alone gives.
C23_FirstMatchDecides ==
    (VerifySettled /\ HasSignedHeaderData(vq.header) /\ HasMatchingProof(vq.header))
    => vq.outcome = verifySignature(OnlyFirstMatch(vq.header), vq.zipBuffer)

----------------------------------------------------------------------------
(* Properties of the CRLSet queries (under SpecCheck)                      *)

CheckSettled == cq.state = "settled"

\* the lower-case form of a hex digit; any other character is itself
CanonDigit(c) ==
    IF c = "A" THEN "a" ELSE IF c = "B" THEN "b" ELSE IF c = "C" THEN "c"
    ELSE IF c = "D" THEN "d" ELSE IF c = "E" THEN "e" ELSE IF c = "F" THEN "f" ELSE c

\* two strings that differ at most in the letter case of hex digits
SameUpToHexCase(a, b) ==
    Len(a) = Len(b) /\ \A i \in DOMAIN a : CanonDigit(a[i]) = CanonDigit(b[i])

\* the issuer is blocked / the serial is listed for the issuer, the hex strings
\* standing for the bytes they denote
Blocked(set, spki) == \E b \in set.blockedSpkis : SameUpToHexCase(b, spki)

Listed(set, spki, serial) ==
    \E k \in DOMAIN set.revocations :
        SameUpToHexCase(k, spki) /\ \E n \in set.revocations[k] : SameUpToHexCase(n, serial)

\* C6: check returns REVOKED_BY_SPKI whenever spki is in blockedSpkis, for every
\* serial, listed for that issuer or not.
C6_BlockedIssuerWins ==
    (CheckSettled /\ cq.spkiHash \in cq.set.blockedSpkis)
    => cq.first.status = REVOKED_BY_SPKI

\* a blocked issuer asked about a serial that is listed for that same issuer
C6_Witness ==
    /\ CheckSettled
    /\ cq.spkiHash \in cq.set.blockedSpkis
    /\ cq.spkiHash \in DOMAIN cq.set.revocations
    /\ cq.serialNumber \in cq.set.revocations[cq.spkiHash]
    /\ cq.first.status = REVOKED_BY_SPKI

\* C7: check returns REVOKED_BY_SERIAL iff the issuer is not blocked and the serial
\* is listed for the issuer, and OK for every pair absent from both structures;
\* an issuer absent from revocations is not revoked by serial.
C7_RevokedBySerialIff ==
    CheckSettled =>
        /\ (cq.first.status = REVOKED_BY_SERIAL)
               <=> (~Blocked(cq.set, cq.spkiHash)
                    /\ Listed(cq.set, cq.spkiHash, cq.serialNumber))
        /\ (~Blocked(cq.set, cq.spkiHash) /\ ~Listed(cq.set, cq.spkiHash, cq.serialNumber))
               => cq.first.status = OK
        /\ (\A k \in DOMAIN cq.set.revocations : ~SameUpToHexCase(k, cq.spkiHash))
               => ~cq.first.bySerial

\* an issuer with listed serials asked about a serial listed only for another issuer
C7_Witness ==
    /\ CheckSettled
    /\ cq.spkiHash \in DOMAIN cq.set.revocations
    /\ cq.serialNumber \notin cq.set.revocations[cq.spkiHash]
    /\ \E k \in DOMAIN cq.set.revocations : cq.serialNumber \in cq.set.revocations[k]
    /\ cq.first.status = OK

\* C8: two inputs that differ only in the letter case of their hex digits get
\* identical answers from isRevokedBySPKI, isRevokedBySerial and check.
C8_CaseInsensitive ==
    (/\ CheckSettled
     /\ SameUpToHexCase(cq.spkiHash, cq.spkiHash2)
     /\ SameUpToHexCase(cq.serialNumber, cq.serialNumber2))
    => cq.first = cq.second

\* a listed pair given once in lower and once in upper case, revoked both times
C8_Witness ==
    /\ CheckSettled
    /\ cq.spkiHash # cq.spkiHash2
    /\ cq.serialNumber # cq.serialNumber2
    /\ SameUpToHexCase(cq.spkiHash, cq.spkiHash2)
    /\ SameUpToHexCase(cq.serialNumber, cq.serialNumber2)
    /\ cq.first.status = REVOKED_BY_SERIAL
    /\ cq.second.status = REVOKED_BY_SERIAL

----------------------------------------------------------------------------
(* Properties of parseCRLSet (under SpecParse)                             *)

ParseSettled == pq.state = "settled"

\* the fields of a written file in order: the truncation error of each and its
\* number of bytes
SerialFields(serial) ==
    <<[error |-> TruncatedSerialLength, bytes |-> 1],
      [error |-> TruncatedSerialNumber, bytes |-> Len(serial)]>>

EntryFields(entry) ==
    <<[error |-> TruncatedSpkiHash, bytes |-> 32],
      [error |-> TruncatedSerialCount, bytes |-> 4]>>
    \o Concat([i \in DOMAIN entry.serials |-> SerialFields(entry.serials[i])])

FileFields(file) ==
    <<[error |-> TruncatedHeaderLength, bytes |-> 2],
      [error |-> TruncatedHeaderContent, bytes |-> Len(file.headerBytes)]>>
    \o Concat([i \in DOMAIN file.entries |-> EntryFields(file.entries[i])])

\* the error of the first field that a prefix of the given length does not hold
\* in full
RECURSIVE FirstFieldCut(_, _)
FirstFieldCut(fields, kept) ==
    IF fields = <<>> THEN "none"
    ELSE IF Head(fields).bytes > kept THEN Head(fields).error
    ELSE FirstFieldCut(Tail(fields), kept - Head(fields).bytes)

IsCut == Len(pq.crlSetBuffer) < pq.whole

\* C15: a buffer that ends before a field of the layout is fully present (header
\* length, header content, issuer hash, serial count, serial length, serial
\* number) makes parseCRLSet fail with the truncation error of the first such
\* field and no other; it never returns an index for such a buffer.
C15_TruncationByBoundary ==
    (ParseSettled /\ IsCut)
    => pq.outcome = Throw(FirstFieldCut(FileFields(pq.file), Len(pq.crlSetBuffer)))

\* the bytes kept end one byte short of the end of a field with the given error
OneByteShortOf(error) ==
    /\ ParseSettled
    /\ IsCut
    /\ FirstFieldCut(FileFields(pq.file), Len(pq.crlSetBuffer)) = error
    /\ FirstFieldCut(FileFields(pq.file), Len(pq.crlSetBuffer) + 1) # error
    /\ pq.outcome = Throw(error)

\* a file of two entries cut one byte short of the serial number that ends it
C15_Witness ==
    /\ OneByteShortOf(TruncatedSerialNumber)
    /\ Len(pq.file.entries) = 2
    /\ Len(pq.crlSetBuffer) = pq.whole - 1

\* C16: for every buffer parseCRLSet accepts, the returned map has exactly
\* header.NumParents issuer keys.
C16_KeysEqualNumParents ==
    (ParseSettled /\ pq.outcome.kind = "return")
    => Cardinality(DOMAIN pq.outcome.value.revocations)
           = ValueOf(pq.outcome.value.header.NumParents)

\* the index a file was written from: issuer hash -> set of serials, in hex
Issuers(file) == {ToHex(file.entries[i].spki) : i \in DOMAIN file.entries}

SerialsOf(file, issuer) ==
    UNION {{ToHex(file.entries[i].serials[j]) : j \in DOMAIN file.entries[i].serials} :
              i \in {k \in DOMAIN file.entries : ToHex(file.entries[k].spki) = issuer}}

DistinctIssuers(file) == Cardinality(Issuers(file)) = Len(file.entries)

\* C17: a header and an index with distinct 32-byte issuer hashes, serials of at
\* most 255 bytes and NumParents equal to the number of issuers, written in the
\* layout in any order of entries and serials, parse to that header and to an index
\* with the same issuer keys and the same serial set per issuer.
C17_RoundTrip ==
    (ParseSettled /\ ~IsCut /\ DistinctIssuers(pq.file))
    => /\ pq.outcome.kind = "return"
       /\ pq.outcome.value.header = JsonHeaders[pq.file.headerBytes[1]]
       /\ DOMAIN pq.outcome.value.revocations = Issuers(pq.file)
       /\ \A issuer \in Issuers(pq.file) :
             pq.outcome.value.revocations[issuer] = SerialsOf(pq.file, issuer)

\* the file of three entries, among them an issuer without serials and a serial
\* of no bytes, parsed whole
C17_Witness ==
    /\ ParseSettled
    /\ ~IsCut
    /\ pq.file.entries = <<EntryBNone, EntryCEmptySerial, EntryA>>
    /\ pq.outcome.kind = "return"
    /\ DOMAIN pq.outcome.value.revocations = {ToHex(HashA), ToHex(HashB), ToHex(HashC)}
    /\ pq.outcome.value.revocations[ToHex(HashC)] = {<<>>, ToHex(SerialY)}

\* C26: for every buffer parseCRLSet accepts, every (issuer hash, serial) pair of
\* the NumParents entries it consumed is in the returned index, also when the same
\* issuer hash occurs in more than one entry, so that isRevokedBySerial is true
\* for each such pair: no revoked serial read from the body is dropped.
C26_NoSerialDropped ==
    (ParseSettled /\ ~IsCut /\ pq.outcome.kind = "return")
    => LET set == NewCRLSet(1, pq.outcome.value.header, pq.outcome.value.revocations).value
       IN  \A i \in DOMAIN pq.file.entries :
               \A j \in DOMAIN pq.file.entries[i].serials :
                   isRevokedBySerial(set, ToHex(pq.file.entries[i].spki),
                                     ToHex(pq.file.entries[i].serials[j]))

----------------------------------------------------------------------------
(* Properties of unpackCrx (under SpecUnpack)                              *)

UnpackSettled == uq.state = "settled"

\* the first four bytes are the tag 'Cr24'
HasMagic(buf) == Len(buf) >= 4 /\ SubSeq(buf, 1, 4) = CRX_MAGIC

\* the four bytes at offset off are the little-endian form of the small number n
WordIs(buf, off, n) ==
    /\ buf[off + 1] = n % 256
    /\ buf[off + 2] = (n \div 256) % 256
    /\ buf[off + 3] = 0
    /\ buf[off + 4] = 0

\* C18: for every buffer whose first 4 bytes are not the ASCII tag 'Cr24',
\* unpackCrx fails with the 'Invalid CRX magic' error, whatever follows.
C18_BadMagicRejected ==
    (UnpackSettled /\ ~HasMagic(uq.crxBuffer)) => uq.outcome = Throw(InvalidMagic)

\* C19: for every buffer with the tag 'Cr24' whose 32-bit little-endian integer
\* at offset 4 is not 3, unpackCrx fails with the 'Unsupported CRX version'
\* error, whatever the header length field holds.
C19_VersionBeforeLength ==
    (/\ UnpackSettled
     /\ HasMagic(uq.crxBuffer)
     /\ Len(uq.crxBuffer) >= 8
     /\ ~WordIs(uq.crxBuffer, 4, 3))
    => uq.outcome = Throw(UnsupportedVersion)

\* version 2 in a file whose header length field, 2^32 - 1, exceeds the file
C19_Witness ==
    /\ UnpackSettled
    /\ HasMagic(uq.crxBuffer)
    /\ Len(uq.crxBuffer) >= 12
    /\ WordIs(uq.crxBuffer, 4, 2)
    /\ SubSeq(uq.crxBuffer, 9, 12) = <<255, 255, 255, 255>>
    /\ uq.outcome = Throw(UnsupportedVersion)

\* 12 + headerLength > length of the buffer, from the bytes of the field; the
\* buffers are shorter than 65536 bytes
DeclaresTooMuch(buf) ==
    \/ buf[11] # 0
    \/ buf[12] # 0
    \/ 12 + buf[9] + 256 * buf[10] > Len(buf)

\* C20: for every buffer of at least 12 bytes with the tag and version 3,
\* unpackCrx fails with the 'header length exceeds file size' error if and only
\* if 12 + headerLength, computed without wrap-around, is greater than the buffer
\* length; when the two are equal it does not, and a payload it returns is empty.
C20_HeaderLengthBound ==
    (/\ UnpackSettled
     /\ HasMagic(uq.crxBuffer)
     /\ Len(uq.crxBuffer) >= 12
     /\ WordIs(uq.crxBuffer, 4, 3))
    => /\ uq.outcome = Throw(HeaderLengthExceeds) <=> DeclaresTooMuch(uq.crxBuffer)
       /\ (/\ ~DeclaresTooMuch(uq.crxBuffer)
           /\ 12 + uq.crxBuffer[9] + 256 * uq.crxBuffer[10] = Len(uq.crxBuffer)
           /\ uq.outcome.kind = "return")
          => uq.outcome.value.zipBuffer = <<>>

\* a 12-byte file whose header length is 2^32 - 12: the sum is 2^32, which a
\* 32-bit sum would wrap to 0
C20_Witness ==
    /\ UnpackSettled
    /\ HasMagic(uq.crxBuffer)
    /\ Len(uq.crxBuffer) = 12
    /\ WordIs(uq.crxBuffer, 4, 3)
    /\ SubSeq(uq.crxBuffer, 9, 12) = <<244, 255, 255, 255>>
    /\ uq.outcome = Throw(HeaderLengthExceeds)

\* the header length field of a buffer whose two high length bytes are zero
HeaderLength(buf) == buf[9] + 256 * buf[10]

\* C21: when unpackCrx succeeds, the header-proof bytes it decodes are exactly
\* input[12, 12 + headerLength) and the payload it returns is exactly
\* input[12 + headerLength, end); the 12-byte prefix, the header-proof region
\* and the payload, in this order, reproduce the input byte for byte.
C21_RegionsPartitionInput ==
    (UnpackSettled /\ uq.outcome.kind = "return")
    => LET buf == uq.crxBuffer
           n == HeaderLength(buf)
           region == SubSeq(buf, 13, 12 + n)
           payload == SubSeq(buf, 13 + n, Len(buf))
       IN  /\ Len(buf) >= 12
           /\ buf[11] = 0 /\ buf[12] = 0
           /\ 12 + n <= Len(buf)
           /\ Len(region) = n
           /\ DecodeCrxFileHeader(region) = Return(uq.outcome.value.header)
           /\ uq.outcome.value.zipBuffer = payload
           /\ Len(uq.outcome.value.zipBuffer) = Len(buf) - 12 - n
           /\ SubSeq(buf, 1, 12) \o region \o uq.outcome.value.zipBuffer = buf

\* a 14-byte file with a one-byte header-proof region and a one-byte payload
C21_Witness ==
    /\ UnpackSettled
    /\ uq.crxBuffer = CRX_MAGIC \o <<3, 0, 0, 0>> \o <<1, 0, 0, 0>> \o <<9, 2>>
    /\ uq.outcome = Return([header |-> DecodedHeaders[9], zipBuffer |-> <<2>>])

\* C30: for every buffer shorter than 12 bytes (empty, shorter than the magic, or
\* 4 to 11 bytes beginning with 'Cr24'), unpackCrx never returns a result and
\* fails with one of its three format errors (invalid magic, unsupported version,
\* header length exceeds file size), not with any other kind of failure.
C30_ShortBufferFormatError ==
    (UnpackSettled /\ Len(uq.crxBuffer) < 12)
    => /\ uq.outcome.kind = "throw"
       /\ uq.outcome.error \in {InvalidMagic, UnsupportedVersion, HeaderLengthExceeds}

====
